---- MODULE Spec2Model ----
(***************************************************************************)
(* A model of `track` (src/src/main.rs): the registry of tracked paths     *)
(* (PathsDB over the sqlite table `paths`), the matcher (find_matches) and *)
(* the exporters (clean_dir, export_dir, export_tar), driven by the arms   *)
(* of main.                                                                *)
(*                                                                         *)
(* A path is the sequence of its components, std::path::Components: the    *)
(* first one is the root directory "/", the others are names.  The table   *)
(* stores a path as the bytes of its string (as_bytes), and gives them     *)
(* back through from_vec.  The filesystem is a function from the paths     *)
(* that exist to their nodes: directories and regular files, a directory   *)
(* with or without its permissions.                                        *)
(*                                                                         *)
(* One invocation of the program runs at a time.  The arms Add, Ls, Rm,    *)
(* Prune and Matched are one step each; the Export arm is a step per       *)
(* function it calls, so that the tree between clean_dir and export_dir    *)
(* is a state.  What the environment decides is an input of the step: the  *)
(* statement on the store that fails, the order in which a directory       *)
(* lists its entries.                                                      *)
(*                                                                         *)
(* SpecRegistry runs the registry arms from an empty store over a fixed    *)
(* tree; SpecExport runs Matched and Export from any store of at most      *)
(* MaxRows paths.                                                          *)
(***************************************************************************)
EXTENDS Naturals, Sequences, FiniteSets, TLC

VARIABLES
    rows,      \* the rows of table `paths`, in rowid order; each a blob
    dbfile,    \* whether track.db exists in the config dir
    fs,        \* the filesystem: path -> [kind, data, mode]
    pc,        \* where main is: "idle", or inside the Export arm
    cmd,       \* the arguments of the running (or last) invocation
    result,    \* how the last invocation ended ("none" while running)
    stdout,    \* the paths printed by the invocation, in order
    stderr,    \* the notices printed by the invocation
    matches,   \* main's `matches`: what find_matches returned
    walked,    \* whether the invocation has walked the tracked roots
    archive,   \* the entries appended to the tar archive
    before,    \* history: `rows` when the invocation started
    fs0,       \* history: `fs` when the invocation started
    dbfile0,   \* history: `dbfile` when the invocation started
    again      \* history: the invocation repeats the one before it, which
               \* ended well

vars == <<rows, dbfile, fs, pc, cmd, result, stdout, stderr, matches, walked,
          archive, before, fs0, dbfile0, again>>

----------------------------------------------------------------------------
(* Bounds *)

\* The registry holds at most MaxRows paths.
MaxRows == 2

----------------------------------------------------------------------------
(* Paths and their bytes *)

RootDir == "/"

ChildNames == {"a", "b", ".git", "out"}

Root == <<RootDir>>

Range(s) == {s[i] : i \in 1..Len(s)}

NoDup(s) == \A i, j \in 1..Len(s) : s[i] = s[j] => i = j

\* OsStr::as_bytes of one component name.
NameBytes(n) ==
    CASE n = "a"    -> <<97>>
      [] n = "b"    -> <<98>>
      [] n = ".git" -> <<46, 103, 105, 116>>
      [] n = "out"  -> <<111, 117, 116>>

RECURSIVE JoinBytes(_, _)
JoinBytes(p, i) ==
    IF i > Len(p) THEN <<>>
    ELSE (IF i > 2 THEN <<47>> ELSE <<>>) \o NameBytes(p[i]) \o JoinBytes(p, i + 1)

\* path.as_os_str().as_bytes(): "/" then the names separated by "/".
as_bytes(p) == <<47>> \o JoinBytes(p, 2)

\* The pieces of a byte string between its separators (47), empty ones dropped.
RECURSIVE SplitBytes(_, _, _)
SplitBytes(b, i, cur) ==
    IF i > Len(b) THEN (IF cur = <<>> THEN <<>> ELSE <<cur>>)
    ELSE IF b[i] = 47
         THEN (IF cur = <<>> THEN <<>> ELSE <<cur>>) \o SplitBytes(b, i + 1, <<>>)
         ELSE SplitBytes(b, i + 1, Append(cur, b[i]))

NameOf(bytes) == CHOOSE n \in ChildNames : NameBytes(n) = bytes

\* PathBuf::from(OsString::from_vec(bytes)), as components.
from_vec(b) ==
    LET parts == SplitBytes(b, 1, <<>>)
    IN  Root \o [i \in 1..Len(parts) |-> NameOf(parts[i])]

IsPrefix(p, q) == Len(p) <= Len(q) /\ SubSeq(q, 1, Len(p)) = p

Parent(p) == SubSeq(p, 1, Len(p) - 1)

\* Path::strip_prefix("/"): the path without its root component.
strip_prefix_NoStrip(p) == p

strip_prefix(p) == SubSeq(p, 2, Len(p))

\* Path::join: an absolute argument replaces the base.
join(base, p) == IF p # <<>> /\ p[1] = RootDir THEN p ELSE base \o p

----------------------------------------------------------------------------
(* The table `paths` *)

\* sqlite's comparison of two blobs: memcmp, then the shorter first.
RECURSIVE BlobCmp(_, _, _)
BlobCmp(x, y, i) ==
    IF i > Len(x) \/ i > Len(y)
    THEN (IF Len(x) < Len(y) THEN "lt" ELSE IF Len(x) > Len(y) THEN "gt" ELSE "eq")
    ELSE IF x[i] < y[i] THEN "lt"
    ELSE IF x[i] > y[i] THEN "gt"
    ELSE BlobCmp(x, y, i + 1)

\* ORDER BY path ASC: the rows, smallest first.
RECURSIVE OrderBy(_)
OrderBy(t) ==
    IF t = <<>> THEN <<>>
    ELSE LET m == CHOOSE i \in 1..Len(t) :
                      \A j \in 1..Len(t) : BlobCmp(t[i], t[j], 1) # "gt"
             rest == [k \in 1..(Len(t) - 1) |-> IF k < m THEN t[k] ELSE t[k + 1]]
         IN  <<t[m]>> \o OrderBy(rest)

\* INSERT INTO paths (path) VALUES (?), with the column's uniqueness constraint.
ExecInsert(t, b) ==
    IF b \in Range(t)
    THEN [table |-> t, rc |-> "ConstraintViolation"]
    ELSE [table |-> Append(t, b), rc |-> "Ok"]

\* DELETE FROM paths WHERE path = ?
ExecDelete(t, b) == SelectSeq(t, LAMBDA r : r # b)

\* PathsDB::add with the duplicate left to fail the call.
add_Strict(t, path, fault) ==
    IF fault THEN [table |-> t, ret |-> "StorageError", err |-> <<>>]
    ELSE LET r == ExecInsert(t, as_bytes(path))
         IN  IF r.rc = "Ok"
             THEN [table |-> r.table, ret |-> "Ok", err |-> <<>>]
             ELSE [table |-> r.table, ret |-> r.rc, err |-> <<>>]

\* PathsDB::add.  `fault`: the statement fails for another reason.
add(t, path, fault) ==
    IF fault THEN [table |-> t, ret |-> "StorageError", err |-> <<>>]
    ELSE LET r == ExecInsert(t, as_bytes(path))
         IN  IF r.rc = "Ok"
             THEN [table |-> r.table, ret |-> "Ok", err |-> <<>>]
             ELSE [table |-> r.table, ret |-> "Ok",
                   err |-> <<"Path already in database!">>]

\* PathsDB::list without the ORDER BY clause.
list_Unordered(t) == [i \in 1..Len(t) |-> from_vec(t[i])]

\* PathsDB::list.
list(t) ==
    LET sorted == OrderBy(t)
    IN  [i \in 1..Len(sorted) |-> from_vec(sorted[i])]

\* PathsDB::rm.  `fault`: the statement fails.
rm(t, path, fault) ==
    IF fault THEN [table |-> t, ret |-> "StorageError"]
    ELSE [table |-> ExecDelete(t, as_bytes(path)), ret |-> "Ok"]

----------------------------------------------------------------------------
(* The filesystem *)

Dir == [kind |-> "dir", data |-> 0, mode |-> TRUE]

File(d) == [kind |-> "file", data |-> d, mode |-> TRUE]

\* The largest tree the model starts from.  /a is a project with a nested
\* repository, /b a file at the top, /out an export destination that holds
\* a repository and an older export.
World ==
    (Root :> Dir)
    @@ (<<"/", "a">> :> Dir)
    @@ (<<"/", "a", "a">> :> Dir)
    @@ (<<"/", "a", "a", "b">> :> File(1))
    @@ (<<"/", "a", "a", ".git">> :> Dir)
    @@ (<<"/", "a", "a", ".git", "b">> :> File(2))
    @@ (<<"/", "a", "b">> :> File(3))
    @@ (<<"/", "a", ".git">> :> File(4))
    @@ (<<"/", "b">> :> File(5))
    @@ (<<"/", "out">> :> Dir)
    @@ (<<"/", "out", ".git">> :> Dir)
    @@ (<<"/", "out", ".git", "b">> :> File(6))
    @@ (<<"/", "out", "a">> :> Dir)
    @@ (<<"/", "out", "a", "b">> :> File(7))

\* The entries a starting tree may lack, and the directories it may hold
\* without any permission (mode 000).
Droppable == {<<"/", "b">>, <<"/", "a", ".git">>}

Lockable == {<<"/", "a">>}

\* The paths given to add and rm, and the destinations given to export.
TrackCands ==
    {<<"/", "a">>, <<"/", "a", "a">>, <<"/", "a", "a", ".git">>,
     <<"/", "a", "out">>, <<"/", "b">>}

DestCands == {<<"/", "out">>, <<"/", "a">>, <<"/", "out", "b">>}

\* The tree without the subtree at p.
RemoveTree(f, p) == [q \in {q \in DOMAIN f : ~IsPrefix(p, q)} |-> f[q]]

RECURSIVE RemoveTrees(_, _)
RemoveTrees(f, ps) ==
    IF ps = {} THEN f
    ELSE LET p == CHOOSE p \in ps : TRUE
         IN  RemoveTrees(RemoveTree(f, p), ps \ {p})

Lock(f, ps) ==
    [q \in DOMAIN f |-> IF q \in ps THEN [f[q] EXCEPT !.mode = FALSE] ELSE f[q]]

Trees(droppable) ==
    {Lock(RemoveTrees(World, drop), lock) :
        drop \in SUBSET droppable, lock \in SUBSET Lockable}

\* Whether the path can be resolved: every directory above it exists and can
\* be searched.
Reachable(f, p) ==
    \A k \in 1..(Len(p) - 1) :
        LET q == SubSeq(p, 1, k)
        IN  q \in DOMAIN f /\ f[q].kind = "dir" /\ f[q].mode

\* Path::exists: whether the metadata of the path can be read.
exists(f, p) == p \in DOMAIN f /\ Reachable(f, p)

\* The orders in which a directory may list its entries.  "out" has no
\* sibling in a directory that is ever listed, so its place is fixed.
Orders ==
    {o \o <<"out">> : o \in {o \in [1..3 -> ChildNames \ {"out"}] : NoDup(o)}}

\* read_dir: the children of p, in the directory's order.
ReadDir(f, p, ord) ==
    LET present == SelectSeq(ord, LAMBDA n : Append(p, n) \in DOMAIN f)
    IN  [i \in 1..Len(present) |-> Append(p, present[i])]

\* Whether p is a directory that can be opened and listed.
CanList(f, p) == exists(f, p) /\ f[p].kind = "dir" /\ f[p].mode

----------------------------------------------------------------------------
(* Invocations *)

\* The arguments of an invocation; `fault` is which of its statements on the
\* store fails (0: none).
NoCmd == [op |-> "none", path |-> <<>>, kind |-> "none", fault |-> 0]

\* main up to the match: Args::parse and PathsDB::open, which creates
\* track.db when it is missing.  The bookkeeping of a new invocation.
Begin(c) ==
    /\ pc = "idle"
    /\ cmd' = c
    /\ dbfile' = TRUE
    /\ before' = rows
    /\ fs0' = fs
    /\ dbfile0' = dbfile

\* Whether an invocation with arguments c repeats the last one, which ended
\* well.
Repeats(c) ==
    result = "Ok" /\ cmd.op = c.op /\ cmd.path = c.path /\ cmd.kind = c.kind

Quiet == stderr' = <<>> /\ archive' = <<>>

\* main, Args::Add with one path.  The path is one that absolutize leaves
\* as it is: absolute, without "." or "..".
Add(p, fault) ==
    /\ Len(rows) < MaxRows \/ as_bytes(p) \in Range(rows)
    /\ Begin([op |-> "add", path |-> p, kind |-> "none",
              fault |-> IF fault THEN 1 ELSE 0])
    /\ LET r == add(rows, p, fault)
       IN  /\ rows' = r.table
           /\ result' = r.ret
           /\ stderr' = r.err
    /\ again' = Repeats(cmd')
    /\ stdout' = <<>>
    /\ archive' = <<>>
    /\ UNCHANGED <<fs, pc, matches, walked>>

\* main, Args::Ls.
Ls ==
    /\ Begin([op |-> "ls", path |-> <<>>, kind |-> "none", fault |-> 0])
    /\ again' = Repeats(cmd')
    /\ stdout' = list(rows)
    /\ result' = "Ok"
    /\ Quiet
    /\ UNCHANGED <<rows, fs, pc, matches, walked>>

\* main, Args::Rm with one path, absolute as for Add.
Rm(p, fault) ==
    /\ Begin([op |-> "rm", path |-> p, kind |-> "none",
              fault |-> IF fault THEN 1 ELSE 0])
    /\ LET r == rm(rows, p, fault)
       IN  /\ rows' = r.table
           /\ result' = r.ret
    /\ again' = Repeats(cmd')
    /\ stdout' = <<>>
    /\ Quiet
    /\ UNCHANGED <<fs, pc, matches, walked>>

\* The loop of Args::Prune that reports the paths that do not exist and
\* removes none.
RECURSIVE PruneLoop_ReportOnly(_, _, _, _, _, _)
PruneLoop_ReportOnly(t, f, paths, failAt, i, out) ==
    IF i > Len(paths) THEN [table |-> t, out |-> out, ret |-> "Ok"]
    ELSE IF ~exists(f, paths[i])
         THEN PruneLoop_ReportOnly(t, f, paths, failAt, i + 1, Append(out, paths[i]))
         ELSE PruneLoop_ReportOnly(t, f, paths, failAt, i + 1, out)

\* The loop of Args::Prune from its i-th path on: a path that does not
\* exist is printed, then removed.  `failAt`: the path whose rm fails (0:
\* none does), which ends the invocation.
RECURSIVE PruneLoop(_, _, _, _, _, _)
PruneLoop(t, f, paths, failAt, i, out) ==
    IF i > Len(paths) THEN [table |-> t, out |-> out, ret |-> "Ok"]
    ELSE IF ~exists(f, paths[i])
         THEN LET r == rm(t, paths[i], i = failAt)
              IN  IF r.ret # "Ok"
                  THEN [table |-> r.table, out |-> Append(out, paths[i]),
                        ret |-> r.ret]
                  ELSE PruneLoop(r.table, f, paths, failAt, i + 1,
                                 Append(out, paths[i]))
         ELSE PruneLoop(t, f, paths, failAt, i + 1, out)

\* main, Args::Prune.
Prune(failAt) ==
    /\ Begin([op |-> "prune", path |-> <<>>, kind |-> "none", fault |-> failAt])
    /\ LET r == PruneLoop(rows, fs, list(rows), failAt, 1, <<>>)
       IN  /\ rows' = r.table
           /\ stdout' = r.out
           /\ result' = r.ret
    /\ again' = Repeats(cmd')
    /\ Quiet
    /\ UNCHANGED <<fs, pc, matches, walked>>

----------------------------------------------------------------------------
(* The matcher *)

\* DirEntryAdapter::is_git_dir deciding on the name alone.
is_git_dir_NameOnly(f, p) == p[Len(p)] = ".git"

\* DirEntryAdapter::is_git_dir.
is_git_dir(f, p) == p[Len(p)] = ".git" /\ f[p].kind = "dir"

NoFiles == [err |-> FALSE, files |-> <<>>]

WalkError == [err |-> TRUE, files |-> <<>>]

RECURSIVE Walk(_, _, _)
RECURSIVE WalkAll(_, _, _, _)

\* The entries WalkDir yields from entry p on, after filter_entry, kept when
\* they are files: a filtered entry is skipped with all below it, a
\* directory that cannot be read yields an error.
Walk(f, p, ord) ==
    IF is_git_dir(f, p) THEN NoFiles
    ELSE IF f[p].kind = "file" THEN [err |-> FALSE, files |-> <<p>>]
    ELSE IF ~f[p].mode THEN WalkError
    ELSE WalkAll(f, ReadDir(f, p, ord), 1, ord)

WalkAll(f, ps, i, ord) ==
    IF i > Len(ps) THEN NoFiles
    ELSE LET h == Walk(f, ps[i], ord)
         IN  IF h.err THEN WalkError
             ELSE LET t == WalkAll(f, ps, i + 1, ord)
                  IN  IF t.err THEN WalkError
                      ELSE [err |-> FALSE, files |-> h.files \o t.files]

\* WalkDir::new(path).into_iter().filter_entry(..): a root that cannot be
\* read yields an error.
WalkDir(f, path, ord) ==
    IF ~exists(f, path) THEN WalkError ELSE Walk(f, path, ord)

\* find_matches, from its i-th path on: the first error ends it.
RECURSIVE find_matches(_, _, _, _)
find_matches(f, paths, i, ord) ==
    IF i > Len(paths) THEN NoFiles
    ELSE LET h == WalkDir(f, paths[i], ord)
         IN  IF h.err THEN WalkError
             ELSE LET t == find_matches(f, paths, i + 1, ord)
                  IN  IF t.err THEN WalkError
                      ELSE [err |-> FALSE, files |-> h.files \o t.files]

----------------------------------------------------------------------------
(* The exporters *)

\* fs::remove_dir_all: fails on what is not a directory, and on a tree that
\* holds a directory without permissions.
remove_dir_all(f, p) ==
    IF f[p].kind # "dir" THEN [fs |-> f, ok |-> FALSE]
    ELSE IF \E q \in DOMAIN f : IsPrefix(p, q) /\ f[q].kind = "dir" /\ ~f[q].mode
         THEN [fs |-> f, ok |-> FALSE]
         ELSE [fs |-> RemoveTree(f, p), ok |-> TRUE]

\* The loop of clean_dir from the i-th child on.
RECURSIVE CleanLoop(_, _, _)
CleanLoop(f, children, i) ==
    IF i > Len(children) THEN [fs |-> f, ok |-> TRUE]
    ELSE IF is_git_dir(f, children[i]) THEN CleanLoop(f, children, i + 1)
    ELSE LET r == remove_dir_all(f, children[i])
         IN  IF r.ok THEN CleanLoop(r.fs, children, i + 1) ELSE r

\* clean_dir.
clean_dir(f, root, ord) ==
    IF ~CanList(f, root) THEN [fs |-> f, ok |-> FALSE]
    ELSE CleanLoop(f, ReadDir(f, root, ord), 1)

Prefixes(p) == {SubSeq(p, 1, k) : k \in 1..Len(p)}

\* DirBuilder::new().recursive(true).create(d).
create_dir_all(f, d) ==
    IF \E q \in Prefixes(d) :
           q \in DOMAIN f /\ (f[q].kind # "dir" \/ (q # d /\ ~f[q].mode))
    THEN [fs |-> f, ok |-> FALSE]
    ELSE [fs |-> [q \in DOMAIN f \cup Prefixes(d) |->
                      IF q \in DOMAIN f THEN f[q] ELSE Dir],
          ok |-> TRUE]

\* Whether a file can be created or truncated at p.
CanWrite(f, p) ==
    /\ Len(p) > 1
    /\ CanList(f, Parent(p))
    /\ p \in DOMAIN f => f[p].kind = "file"

\* The tree with a file of content d at p.
Put(f, p, d) == [q \in DOMAIN f \cup {p} |-> IF q = p THEN File(d) ELSE f[q]]

\* fs::copy(from, to).
copy(f, from, to) ==
    IF exists(f, from) /\ f[from].kind = "file" /\ CanWrite(f, to)
    THEN [fs |-> Put(f, to, f[from].data), ok |-> TRUE]
    ELSE [fs |-> f, ok |-> FALSE]

\* Where export_dir puts a match, and what export_tar names it.
Stem(mat) == strip_prefix(mat)

\* The loop of export_dir from the i-th match on.
RECURSIVE export_dir(_, _, _, _)
export_dir(f, root, mats, i) ==
    IF i > Len(mats) THEN [fs |-> f, ok |-> TRUE]
    ELSE LET new_path == join(root, Stem(mats[i]))
             d == create_dir_all(f, Parent(new_path))
         IN  IF ~d.ok THEN d
             ELSE LET c == copy(d.fs, mats[i], new_path)
                  IN  IF c.ok THEN export_dir(c.fs, root, mats, i + 1) ELSE c

\* The loop of export_tar from the i-th match on: append_path_with_name.
RECURSIVE TarLoop(_, _, _, _)
TarLoop(f, mats, i, entries) ==
    IF i > Len(mats) THEN [entries |-> entries, ok |-> TRUE]
    ELSE IF exists(f, mats[i]) /\ f[mats[i]].kind = "file"
         THEN TarLoop(f, mats, i + 1,
                      Append(entries, [name |-> Stem(mats[i]),
                                       data |-> f[mats[i]].data]))
         ELSE [entries |-> entries, ok |-> FALSE]

\* export_tar: File::create, then the entries.
export_tar(f, root, mats) ==
    IF ~CanWrite(f, root) THEN [fs |-> f, entries |-> <<>>, ok |-> FALSE]
    ELSE LET g == Put(f, root, 0)
             r == TarLoop(g, mats, 1, <<>>)
         IN  [fs |-> g, entries |-> r.entries, ok |-> r.ok]

\* ExportKind.
Kinds == {"dir", "tar", "zip"}

\* What find_matches(&paths) may return, over the orders in which the
\* directories list their entries.
MatchResults == {find_matches(fs, list(rows), 1, ord) : ord \in Orders}

\* main, Args::Matched.
Matched ==
    /\ Begin([op |-> "matched", path |-> <<>>, kind |-> "none", fault |-> 0])
    /\ \E r \in MatchResults :
           /\ matches' = r.files
           /\ stdout' = r.files
           /\ result' = IF r.err THEN "MatchError" ELSE "Ok"
           /\ again' = (Repeats(cmd') /\ matches = r.files)
    /\ walked' = TRUE
    /\ Quiet
    /\ UNCHANGED <<rows, fs, pc>>

\* main, Args::Export up to the match on the kind.
ExportStart(kind, path) ==
    /\ Begin([op |-> "export", path |-> path, kind |-> kind, fault |-> 0])
    /\ \E r \in MatchResults :
           /\ matches' = r.files
           /\ result' = IF r.err THEN "MatchError" ELSE "none"
           /\ pc' = IF r.err THEN "idle"
                    ELSE IF kind = "dir" THEN "clean" ELSE kind
           /\ again' = (Repeats(cmd') /\ matches = r.files)
    /\ walked' = TRUE
    /\ stdout' = <<>>
    /\ Quiet
    /\ UNCHANGED <<rows, fs>>

\* What the steps of the Export arm leave alone.
Stay == UNCHANGED <<rows, dbfile, cmd, stdout, stderr, matches, walked,
                    before, fs0, dbfile0, again>>

\* main, ExportKind::Dir: clean_dir(&path)?
CleanDir ==
    /\ pc = "clean"
    /\ \E r \in {clean_dir(fs, cmd.path, ord) : ord \in Orders} :
           /\ fs' = r.fs
           /\ pc' = IF r.ok THEN "populate" ELSE "idle"
           /\ result' = IF r.ok THEN "none" ELSE "CleanError"
    /\ UNCHANGED archive
    /\ Stay

\* main, ExportKind::Dir: export_dir(path, &matches)?
ExportDir ==
    /\ pc = "populate"
    /\ LET r == export_dir(fs, cmd.path, matches, 1)
       IN  /\ fs' = r.fs
           /\ result' = IF r.ok THEN "Ok" ELSE "ExportError"
    /\ pc' = "idle"
    /\ UNCHANGED archive
    /\ Stay

\* main, ExportKind::Tar.
ExportTar ==
    /\ pc = "tar"
    /\ LET r == export_tar(fs, cmd.path, matches)
       IN  /\ fs' = r.fs
           /\ archive' = r.entries
           /\ result' = IF r.ok THEN "Ok" ELSE "ExportError"
    /\ pc' = "idle"
    /\ Stay

\* main, ExportKind::Zip: todo!()
ExportZip ==
    /\ pc = "zip"
    /\ result' = "NotImplemented"
    /\ pc' = "idle"
    /\ UNCHANGED <<fs, archive>>
    /\ Stay

----------------------------------------------------------------------------
(* The registry: add, ls, rm and prune over a fixed filesystem *)

InitCommon ==
    /\ pc = "idle"
    /\ cmd = NoCmd
    /\ result = "none"
    /\ stdout = <<>>
    /\ stderr = <<>>
    /\ matches = <<>>
    /\ walked = FALSE
    /\ archive = <<>>
    /\ before = rows
    /\ fs0 = fs
    /\ dbfile0 = dbfile
    /\ again = FALSE

InitRegistry ==
    /\ rows = <<>>
    /\ dbfile = FALSE
    /\ fs \in Trees(Droppable \cap TrackCands)
    /\ InitCommon

NextRegistry ==
    \/ \E p \in TrackCands, fault \in BOOLEAN : Add(p, fault)
    \/ Ls
    \/ \E p \in TrackCands, fault \in BOOLEAN : Rm(p, fault)
    \/ \E failAt \in 0..MaxRows : Prune(failAt)

SpecRegistry == InitRegistry /\ [][NextRegistry]_vars

----------------------------------------------------------------------------
(* Matching and exporting, from any registry over any starting tree *)

\* The registries of at most MaxRows paths, in any order of insertion.
Registries ==
    UNION {{t \in [1..n -> {as_bytes(p) : p \in TrackCands}] : NoDup(t)} :
              n \in 0..MaxRows}

InitExport ==
    /\ rows \in Registries
    /\ dbfile \in BOOLEAN
    /\ rows # <<>> => dbfile
    /\ fs \in Trees(Droppable \ TrackCands)
    /\ InitCommon

NextExport ==
    \/ Matched
    \/ \E kind \in Kinds, path \in DestCands : ExportStart(kind, path)
    \/ CleanDir
    \/ ExportDir
    \/ ExportTar
    \/ ExportZip

SpecExport == InitExport /\ [][NextExport]_vars

----------------------------------------------------------------------------
(* Properties of the registry *)

\* x before y in the lexicographic order of byte strings.
LexLess(x, y) ==
    \E k \in 0..Len(x) :
        /\ k <= Len(y)
        /\ \A i \in 1..k : x[i] = y[i]
        /\ \/ k = Len(x) /\ k < Len(y)
           \/ k < Len(x) /\ k < Len(y) /\ x[k + 1] < y[k + 1]

Missing(f, p) == p \notin DOMAIN f

\* The path lies under a directory that cannot be searched.
Inaccessible(f, p) ==
    \E k \in 1..(Len(p) - 1) :
        SubSeq(p, 1, k) \in DOMAIN f /\ ~f[SubSeq(p, 1, k)].mode

\* C1: add(p) of a stored path succeeds and leaves the registry as it was;
\* a successful add leaves p stored; and list() never holds a path twice.
C1_AddIsIdempotent ==
    /\ NoDup(rows)
    /\ NoDup(list(rows))
    /\ (cmd.op = "add" /\ cmd.fault = 0 /\ as_bytes(cmd.path) \in Range(before))
          => (result = "Ok" /\ rows = before)
    /\ (cmd.op = "add" /\ result = "Ok")
          => Cardinality({i \in 1..Len(list(rows)) : list(rows)[i] = cmd.path}) = 1

\* add(p); add(p): the second add found p stored, and succeeded.
C1_Witness ==
    /\ cmd.op = "add" /\ cmd.fault = 0 /\ result = "Ok"
    /\ again
    /\ as_bytes(cmd.path) \in Range(before)
    /\ stderr # <<>>

\* C2 as amended: a prune that completes removes, and reports, exactly the
\* tracked paths that are missing or cannot be accessed, and keeps the
\* others; a prune right after a completed prune removes and reports nothing.
C2_PruneRemovesUnreadable ==
    /\ (cmd.op = "prune" /\ result = "Ok") =>
          /\ list(rows) = SelectSeq(list(before),
                 LAMBDA p : ~(Missing(fs, p) \/ Inaccessible(fs, p)))
          /\ stdout = SelectSeq(list(before),
                 LAMBDA p : Missing(fs, p) \/ Inaccessible(fs, p))
    /\ (cmd.op = "prune" /\ again) =>
          (result = "Ok" /\ rows = before /\ stdout = <<>>)

\* A completed prune that removed a path which is on disk, under a directory
\* without permissions, and kept another.
C2_Witness ==
    /\ cmd.op = "prune" /\ result = "Ok"
    /\ \E i \in 1..Len(stdout) : stdout[i] \in DOMAIN fs
    /\ rows # <<>>

\* C2 as stated: a prune that completes removes exactly the tracked paths
\* that do not exist on disk, and leaves every one that exists.
C2_PruneRemovesMissingOnly ==
    (cmd.op = "prune" /\ result = "Ok") =>
        list(rows) = SelectSeq(list(before), LAMBDA p : p \in DOMAIN fs)

\* C8: list() holds exactly the tracked paths, in ascending lexicographic
\* order of their bytes, and ls leaves the registry as it was.
C8_ListIsSorted ==
    /\ LET l == list(rows)
       IN  /\ Len(l) = Len(rows)
           /\ {as_bytes(l[i]) : i \in 1..Len(l)} = Range(rows)
           /\ \A i, j \in 1..Len(l) : i < j => LexLess(as_bytes(l[i]), as_bytes(l[j]))
    /\ cmd.op = "ls" => (stdout = list(before) /\ rows = before /\ result = "Ok")

\* ls of a registry whose rows were not inserted in ascending order.
C8_Witness ==
    /\ cmd.op = "ls" /\ Len(stdout) >= 2
    /\ \E i \in 1..(Len(rows) - 1) : LexLess(rows[i + 1], rows[i])

\* C9: a prune, however it ends, leaves the registry with none or all of its
\* removals applied, and every path it reported is gone from the registry.
C9_PruneIsAtomic ==
    cmd.op = "prune" =>
        /\ \/ rows = before
           \/ list(rows) = SelectSeq(list(before),
                  LAMBDA p : ~(Missing(fs, p) \/ Inaccessible(fs, p)))
        /\ \A i \in 1..Len(stdout) : as_bytes(stdout[i]) \notin Range(rows)

----------------------------------------------------------------------------
(* Properties of the matcher and the exporters *)

Dest == cmd.path

DirExport == cmd.op = "export" /\ cmd.kind = "dir"

\* The regular files at or below root with no directory named .git on the
\* way from root to them.
Expected(f, root) ==
    {p \in DOMAIN f :
        /\ IsPrefix(root, p)
        /\ f[p].kind = "file"
        /\ \A k \in Len(root)..Len(p) :
               ~(p[k] = ".git" /\ f[SubSeq(p, 1, k)].kind = "dir")}

\* The number of files expected from the roots before the i-th.
RECURSIVE Offset(_, _, _)
Offset(f, roots, i) ==
    IF i <= 1 THEN 0
    ELSE Offset(f, roots, i - 1) + Cardinality(Expected(f, roots[i - 1]))

\* C3: once the clean step has run on a destination that is a directory, it
\* has not failed, every child but a directory named .git is gone, and the
\* tree below such a directory is as it was.
C3_CleanRemovesEveryChild ==
    (DirExport /\ (pc = "populate" \/ result = "CleanError") /\ CanList(fs0, Dest))
    => /\ result # "CleanError"
       /\ \A p \in DOMAIN fs0 :
              (Len(p) > Len(Dest) /\ IsPrefix(Dest, p)) =>
                  LET child == SubSeq(p, 1, Len(Dest) + 1)
                  IN  IF child[Len(child)] = ".git" /\ fs0[child].kind = "dir"
                      THEN p \in DOMAIN fs /\ fs[p] = fs0[p]
                      ELSE p \notin DOMAIN fs

\* C4: a find_matches that returns gives, root after root in the order of
\* the roots, exactly the regular files below the root that are not inside
\* a directory named .git, each once per root and with no deduplication
\* across roots.
C4_MatchesAreTheFilesOutsideGit ==
    (walked /\ result # "MatchError") =>
        LET roots == list(rows)
        IN  /\ Len(matches) = Offset(fs0, roots, Len(roots) + 1)
            /\ \A i \in 1..Len(roots) :
                   {matches[k] : k \in (Offset(fs0, roots, i) + 1)..
                                       Offset(fs0, roots, i + 1)}
                       = Expected(fs0, roots[i])
            /\ \A k \in 1..Len(matches) : fs0[matches[k]].kind = "file"

\* The root /a holding a/b, a/.git/b and b gives exactly /a/a/b and /a/b,
\* and the root /a/a below it gives /a/a/b once more.
C4_Witness ==
    /\ cmd.op = "matched" /\ result = "Ok"
    /\ list(rows) = <<(<<"/", "a">>), (<<"/", "a", "a">>)>>
    /\ {p \in DOMAIN fs0 : IsPrefix(<<"/", "a">>, p) /\ fs0[p].kind = "file"}
           = {<<"/", "a", "a", "b">>, <<"/", "a", "a", ".git", "b">>,
              <<"/", "a", "b">>}
    /\ Len(matches) = 3
    /\ Range(matches) = {<<"/", "a", "a", "b">>, <<"/", "a", "b">>}
    /\ matches[3] = <<"/", "a", "a", "b">>

\* C5: an export of kind zip ends as not implemented, without having walked
\* the tracked roots and without having written anything.
C5_ZipFailsAtOnce ==
    (cmd.op = "export" /\ cmd.kind = "zip") =>
        /\ ~walked
        /\ fs = fs0
        /\ dbfile = dbfile0
        /\ pc = "idle" => result = "NotImplemented"

\* C6: a directory export that repeats the one before it, with the same
\* matches and a destination that holds none of them, succeeds and leaves
\* the tree as the first left it.
C6_ReexportIsIdempotent ==
    (DirExport /\ again /\ pc = "idle"
        /\ \A i \in 1..Len(matches) : ~IsPrefix(Dest, matches[i]))
    => (result = "Ok" /\ fs = fs0)

\* C7: a directory export that succeeds leaves, for every match /p, a file
\* at the destination joined with p whose content is that of the last match
\* with that destination, below directories; a tar export that succeeds
\* holds one entry per match, in order, named p, with the content of /p.
C7_ExportKeepsRelativePaths ==
    /\ (DirExport /\ pc = "idle" /\ result = "Ok") =>
           \A i \in 1..Len(matches) :
               LET d == Dest \o Tail(matches[i])
                   last == CHOOSE j \in 1..Len(matches) :
                               /\ Tail(matches[j]) = Tail(matches[i])
                               /\ \A k \in 1..Len(matches) :
                                      Tail(matches[k]) = Tail(matches[i]) => k <= j
               IN  /\ d \in DOMAIN fs
                   /\ fs[d].kind = "file"
                   /\ fs[d].data = fs0[matches[last]].data
                   /\ \A k \in 1..(Len(d) - 1) :
                          /\ SubSeq(d, 1, k) \in DOMAIN fs
                          /\ fs[SubSeq(d, 1, k)].kind = "dir"
    /\ (cmd.op = "export" /\ cmd.kind = "tar" /\ pc = "idle" /\ result = "Ok") =>
           /\ Len(archive) = Len(matches)
           /\ \A i \in 1..Len(matches) :
                  archive[i] = [name |-> Tail(matches[i]),
                                data |-> fs0[matches[i]].data]

\* A directory export that succeeded with a match emitted twice and a
\* destination file three directories down.
C7_Witness ==
    /\ DirExport /\ pc = "idle" /\ result = "Ok"
    /\ Len(matches) > Cardinality(Range(matches))
    /\ <<"/", "out", "a", "a", "b">> \in DOMAIN fs
    /\ <<"/", "out", "a", "a", "b">> \notin DOMAIN fs0

\* C10: from the clean step on, every matched file is where it was, with
\* the content it had, when the matches were computed.
C10_ExportKeepsItsSources ==
    (DirExport /\ pc \in {"populate", "idle"}) =>
        \A i \in 1..Len(matches) :
            matches[i] \in DOMAIN fs /\ fs[matches[i]] = fs0[matches[i]]

====
